---- MODULE Spec2Model ----
(***************************************************************************)
(* A model of name_generator.py: the chain store (markov_chain), the chain *)
(* builder (construct_chain, incr_chain, scale_chain), the weighted        *)
(* sampler (select_link), the name synthesizer (markov_name) and the       *)
(* callers generate_name and name_list.                                    *)
(*                                                                         *)
(* A Python dict keeps insertion order, and select_link depends on it, so  *)
(* a dict is modelled as a sequence of <<key, value>> pairs without        *)
(* repeated keys.  A string that the program indexes (a word-part, a       *)
(* generated name) is a sequence of one-character strings; a key or token  *)
(* is a TLA+ string.                                                       *)
(***************************************************************************)
EXTENDS Integers, Sequences, FiniteSets, TLC

\* The longest build, counted in occurrences recorded (incr_chain calls),
\* summed over the registered word lists.
MaxIncr == 6

\* The largest n_of a caller passes to name_list.
MaxN == 2

\* The characters of the word lists and the registered identifiers' names.
Chars == {"a", "b"}
Ids == {"x", "y"}

----------------------------------------------------------------------------
\* Python dicts: insertion-ordered maps.

DictKeys(d) == {d[n][1] : n \in 1..Len(d)}

DictHas(d, k) == \E n \in 1..Len(d) : d[n][1] = k

DictGet(d, k) == d[CHOOSE n \in 1..Len(d) : d[n][1] = k][2]

\* d[k] = v: an existing key keeps its position, a new key goes last.
DictSet(d, k, v) ==
    IF DictHas(d, k)
    THEN [n \in 1..Len(d) |-> IF d[n][1] = k THEN <<k, v>> ELSE d[n]]
    ELSE Append(d, <<k, v>>)

----------------------------------------------------------------------------
\* str() and int() on the non-negative integers the program converts.

Digits == <<"0", "1", "2", "3", "4", "5", "6", "7", "8", "9">>

RECURSIVE Str(_)
Str(n) == IF n < 10 THEN Digits[n + 1] ELSE Str(n \div 10) \o Digits[(n % 10) + 1]

\* int(s) for a digit string s that str() produced.
ToInt(s) == CHOOSE n \in 0..(MaxIncr + 1) : Str(n) = s

----------------------------------------------------------------------------
\* math.floor(math.pow(count, 1.3)): the w with w^10 <= count^13 < (w+1)^10.
\* count^13 exceeds the machine integers, so the powers are compared as
\* little-endian sequences of base-1000 digits.


RECURSIVE BigMul(_, _, _)
BigMul(x, k, carry) ==
    IF x = <<>>
    THEN IF carry = 0 THEN <<>> ELSE <<carry % 1000>> \o BigMul(<<>>, k, carry \div 1000)
    ELSE LET t == x[1] * k + carry
         IN  <<t % 1000>> \o BigMul(Tail(x), k, t \div 1000)

RECURSIVE BigPow(_, _)
BigPow(n, e) == IF e = 0 THEN <<1>> ELSE BigMul(BigPow(n, e - 1), n, 0)

RECURSIVE BigLeq(_, _)
BigLeq(x, y) ==
    IF Len(x) # Len(y) THEN Len(x) < Len(y)
    ELSE IF x = <<>> THEN TRUE
    ELSE LET n == Len(x)
         IN  IF x[n] # y[n] THEN x[n] < y[n]
             ELSE BigLeq(SubSeq(x, 1, n - 1), SubSeq(y, 1, n - 1))

FloorPow13(count) ==
    CHOOSE w \in 0..(count * count) :
        /\ BigLeq(BigPow(w, 10), BigPow(count, 13))
        /\ ~BigLeq(BigPow(w + 1, 10), BigPow(count, 13))

\* The scaled weights of the counts a build can reach.
WeightTable == [count \in 1..(MaxIncr + 1) |-> FloorPow13(count)]

Weighted(count) == WeightTable[count]

----------------------------------------------------------------------------
\* incr_chain with "chain[key][token] = 1" on both branches: a token seen
\* again is not counted again.
incr_chain_no_count(chain, key, token) ==
    IF DictHas(chain, key)
    THEN DictSet(chain, key, DictSet(DictGet(chain, key), token, 1))
    ELSE DictSet(chain, key, <<<<token, 1>>>>)

\* incr_chain, on the dict it resolved its first argument to: one more
\* occurrence of chain[key][token].
incr_chain(chain, key, token) ==
    IF DictHas(chain, key)
    THEN LET table == DictGet(chain, key)
         IN  IF DictHas(table, token)
             THEN DictSet(chain, key, DictSet(table, token, DictGet(table, token) + 1))
             ELSE DictSet(chain, key, DictSet(table, token, 1))
    ELSE DictSet(chain, key, <<<<token, 1>>>>)

\* The inner loop of scale_chain over one key's tokens: every count is
\* replaced by its weight.
ScaleTokens(table) ==
    [n \in 1..Len(table) |-> <<table[n][1], Weighted(table[n][2])>>]

\* table_len[key] accumulated from count instead of weighted.
RECURSIVE AccumulateLenRaw(_, _)
AccumulateLenRaw(table, acc) ==
    IF table = <<>> THEN acc
    ELSE AccumulateLenRaw(Tail(table), acc + table[1][2])

\* table_len[key] as the inner loop of scale_chain accumulates it from the
\* raw counts.
RECURSIVE AccumulateLen(_, _)
AccumulateLen(table, acc) ==
    IF table = <<>> THEN acc
    ELSE AccumulateLen(Tail(table), acc + Weighted(table[1][2]))

scale_chain(chain) ==
    LET scaled == [n \in 1..Len(chain) |-> <<chain[n][1], ScaleTokens(chain[n][2])>>]
        table_len == [n \in 1..Len(chain) |-> <<chain[n][1], AccumulateLen(chain[n][2], 0)>>]
    IN  DictSet(scaled, "table_len", table_len)

----------------------------------------------------------------------------
\* select_link.  Its three lookups raise before anything is drawn:
\* chain['table_len'] and ['table_len'][key] raise KeyError on a missing
\* key, and random.randrange(0, 0) raises ValueError.  "chainlen is False"
\* is never true of an integer, so that return is never taken.
SelectLinkError(chain, key) ==
    IF ~DictHas(chain, "table_len") THEN "KeyError"
    ELSE IF ~DictHas(DictGet(chain, "table_len"), key) THEN "KeyError"
    ELSE IF DictGet(DictGet(chain, "table_len"), key) <= 0 THEN "ValueError"
    ELSE "none"

\* The values random.randrange(0, chainlen) can draw.
SelectLinkDraws(chain, key) == 0..(DictGet(DictGet(chain, "table_len"), key) - 1)

\* The loop of select_link with "if acc >= idx".
RECURSIVE SelectTokenInclusive(_, _, _)
SelectTokenInclusive(table, acc, idx) ==
    IF table = <<>> THEN ""
    ELSE IF acc + table[1][2] >= idx THEN table[1][1]
    ELSE SelectTokenInclusive(Tail(table), acc + table[1][2], idx)

\* The loop of select_link over the tokens, in dict order, for a drawn idx.
RECURSIVE SelectToken(_, _, _)
SelectToken(table, acc, idx) ==
    IF table = <<>> THEN ""
    ELSE IF acc + table[1][2] > idx THEN table[1][1]
    ELSE SelectToken(Tail(table), acc + table[1][2], idx)

select_link(chain, key, idx) == SelectToken(DictGet(chain, key), 0, idx)

----------------------------------------------------------------------------
\* The word lists.  An entry is a bare string, [str |-> s], or a list of
\* word-parts, [list |-> <<s1, ..., sk>>].

Strs(l) == [1..l -> Chars]

\* "if type(names) is str: names = [names]"
NamesOf(entry) == IF "str" \in DOMAIN entry THEN <<entry.str>> ELSE entry.list

\* A build records 1 + Len(s) occurrences for a word-part s (its name_len,
\* its initial, its Len(s) - 1 links) and one more for every entry.

\* The sequences of word-parts that record exactly c occurrences.
RECURSIVE NameSeqs(_)
NameSeqs(c) ==
    IF c = 0 THEN {<<>>}
    ELSE UNION {{<<s>> \o rest : s \in Strs(l), rest \in NameSeqs(c - 1 - l)} : l \in 0..(c - 1)}

EntriesOf(c) ==
    {[list |-> names] : names \in NameSeqs(c - 1) \ {<<>>}}
        \cup (IF c >= 2 THEN {[str |-> s] : s \in Strs(c - 2)} ELSE {})

RECURSIVE ListsOf(_)
ListsOf(c) ==
    IF c = 0 THEN {<<>>}
    ELSE UNION {{<<e>> \o rest : e \in EntriesOf(k), rest \in ListsOf(c - k)} : k \in 1..c}

\* The registries: every identifier is unregistered or has a word list,
\* and the lists together record at most MaxIncr occurrences.
RECURSIVE Registries(_, _)
Registries(ids, budget) ==
    IF ids = {} THEN {<<>>}
    ELSE LET id == CHOOSE i \in ids : TRUE
             With(r, wl) == [i \in DOMAIN r \cup {id} |-> IF i = id THEN wl ELSE r[i]]
         IN  Registries(ids \ {id}, budget) \cup
             UNION {{With(r, wl) : wl \in ListsOf(c), r \in Registries(ids \ {id}, budget - c)} :
                        c \in 0..budget}

----------------------------------------------------------------------------
VARIABLES
    name_set,     \* the global name_set: identifier -> word list
    chain_cache,  \* the global chain_cache: identifier -> chain
    pc,           \* the statement the program is at
    call,         \* the call the program's user made: [fn, id, n_of]
    namelist,     \* name_list: the names generated so far
    i, j,         \* construct_chain: the entry and the word-part being read
    word,         \* construct_chain: the characters of the part still to read
    last_c,       \* construct_chain and markov_name: the previous character
    parts,        \* markov_name: the number of parts drawn
    names,        \* markov_name: the parts finished
    name_len,     \* markov_name: the length drawn for the current part
    name,         \* markov_name: the current part
    result,       \* how the last call ended: [fn, id, n_of, raised, val]
    builds,       \* per identifier, the number of construct_chain calls made
    returned      \* per identifier, what markov_chain last returned

vars == <<name_set, chain_cache, pc, call, namelist, i, j, word, last_c,
          parts, names, name_len, name, result, builds, returned>>

NoCall == [fn |-> "none", id |-> "", n_of |-> 0]
NoResult == [fn |-> "none", id |-> "", n_of |-> 0, raised |-> "none", val |-> <<>>]

\* f with f[k] set to v, k added to its domain when it is new.
Store(f, k, v) == [x \in DOMAIN f \cup {k} |-> IF x = k THEN v ELSE f[x]]

Init ==
    /\ name_set \in Registries(Ids, MaxIncr)
    /\ chain_cache = <<>>
    /\ pc = "idle"
    /\ call = NoCall
    /\ namelist = <<>>
    /\ i = 0 /\ j = 0 /\ word = <<>> /\ last_c = ""
    /\ parts = 0 /\ names = <<>> /\ name_len = 0 /\ name = <<>>
    /\ result = NoResult
    /\ builds = [id \in Ids |-> 0]
    /\ returned = <<>>

ResetLocals ==
    /\ i' = 0 /\ j' = 0 /\ word' = <<>> /\ last_c' = ""
    /\ parts' = 0 /\ names' = <<>> /\ name_len' = 0 /\ name' = <<>>

\* The user's call returns val.
Return(val) ==
    /\ result' = [fn |-> call.fn, id |-> call.id, n_of |-> call.n_of,
                  raised |-> "none", val |-> val]
    /\ pc' = "idle" /\ call' = NoCall /\ namelist' = <<>>
    /\ ResetLocals

\* An exception leaves the user's call: none of generate_name, name_list,
\* construct_chain and markov_name catches anything, and the try of
\* markov_chain covers the cache lookup alone.
Raise(e) ==
    /\ result' = [fn |-> call.fn, id |-> call.id, n_of |-> call.n_of,
                  raised |-> e, val |-> <<>>]
    /\ pc' = "idle" /\ call' = NoCall /\ namelist' = <<>>
    /\ ResetLocals

----------------------------------------------------------------------------
\* The user calls markov_chain(id), generate_name(id) or name_list(id, n_of).

CallMarkovChain(id) ==
    /\ pc = "idle"
    /\ call' = [fn |-> "markov_chain", id |-> id, n_of |-> 0]
    /\ pc' = "markov_chain"
    /\ result' = NoResult
    /\ UNCHANGED <<name_set, chain_cache, namelist, i, j, word, last_c,
                   parts, names, name_len, name, builds, returned>>

CallGenerateName(id) ==
    /\ pc = "idle"
    /\ call' = [fn |-> "generate_name", id |-> id, n_of |-> 0]
    /\ pc' = "markov_chain"
    /\ result' = NoResult
    /\ UNCHANGED <<name_set, chain_cache, namelist, i, j, word, last_c,
                   parts, names, name_len, name, builds, returned>>

\* name_list: range(0, n_of) is empty for n_of = 0, and the empty namelist
\* is returned; otherwise the first generate_name call starts.
CallNameList(id, n_of) ==
    /\ pc = "idle"
    /\ IF n_of = 0
       THEN /\ result' = [fn |-> "name_list", id |-> id, n_of |-> 0,
                           raised |-> "none", val |-> <<>>]
            /\ UNCHANGED <<pc, call>>
       ELSE /\ call' = [fn |-> "name_list", id |-> id, n_of |-> n_of]
            /\ pc' = "markov_chain"
            /\ result' = NoResult
    /\ UNCHANGED <<name_set, chain_cache, namelist, i, j, word, last_c,
                   parts, names, name_len, name, builds, returned>>

\* generate_name returns nm: to the user, or to the loop of name_list, which
\* appends it and calls generate_name again until n_of names are there.
GenerateNameReturns(nm) ==
    IF call.fn = "generate_name"
    THEN Return(nm)
    ELSE IF Len(namelist) + 1 = call.n_of
         THEN Return(Append(namelist, nm))
         ELSE /\ namelist' = Append(namelist, nm)
              /\ pc' = "markov_chain"
              /\ ResetLocals
              /\ UNCHANGED <<call, result>>

\* markov_chain returns chain: to the user, or to generate_name, which
\* returns '' for {} and goes on to markov_name otherwise.
MarkovChainReturns(chain) ==
    /\ returned' = Store(returned, call.id, chain)
    /\ IF call.fn = "markov_chain"
       THEN Return(chain)
       ELSE IF chain # <<>>
            THEN /\ pc' = "markov_name"
                 /\ ResetLocals
                 /\ UNCHANGED <<call, result, namelist>>
            ELSE GenerateNameReturns(<<>>)

----------------------------------------------------------------------------
\* markov_chain.

\* A lookup that always raises KeyError: a store that never remembers.
CacheHitNever(id) == FALSE

\* "chain = chain_cache[chainName]" does not raise KeyError.
CacheHit(id) == id \in DOMAIN chain_cache

MarkovChainHit ==
    /\ pc = "markov_chain"
    /\ CacheHit(call.id)
    /\ MarkovChainReturns(chain_cache[call.id])
    /\ UNCHANGED <<name_set, chain_cache, builds>>

\* "wordlist = name_set[chainName]" raises KeyError, inside the handler of
\* the first one.
MarkovChainUnregistered ==
    /\ pc = "markov_chain"
    /\ ~CacheHit(call.id)
    /\ call.id \notin DOMAIN name_set
    /\ Raise("KeyError")
    /\ UNCHANGED <<name_set, chain_cache, builds, returned>>

MarkovChainEmpty ==
    /\ pc = "markov_chain"
    /\ ~CacheHit(call.id)
    /\ call.id \in DOMAIN name_set
    /\ Len(name_set[call.id]) = 0
    /\ MarkovChainReturns(<<>>)
    /\ UNCHANGED <<name_set, chain_cache, builds>>

\* "chain_cache[chainName] = {}" and the call of construct_chain, up to its
\* loop over the word list.
MarkovChainBuild ==
    /\ pc = "markov_chain"
    /\ ~CacheHit(call.id)
    /\ call.id \in DOMAIN name_set
    /\ Len(name_set[call.id]) > 0
    /\ chain_cache' = Store(chain_cache, call.id, <<>>)
    /\ builds' = [builds EXCEPT ![call.id] = @ + 1]
    /\ pc' = "parts"
    /\ i' = 1
    /\ UNCHANGED <<name_set, call, namelist, j, word, last_c,
                   parts, names, name_len, name, result, returned>>

----------------------------------------------------------------------------
\* construct_chain, one incr_chain call a step.  The first incr_chain of an
\* entry is given the identifier, which is a key of chain_cache by then, so
\* it works on chain_cache[identifier] itself and returns it: the local
\* chain is the cached dict, and every later incr_chain writes to it.

wordlist == name_set[call.id]

\* The part after part j of entry i, the entry after entry i, or the end of
\* the loops.
NextPart ==
    IF j + 1 < Len(NamesOf(wordlist[i]))
    THEN pc' = "name_len" /\ j' = j + 1 /\ i' = i
    ELSE IF i < Len(wordlist)
         THEN pc' = "parts" /\ j' = 0 /\ i' = i + 1
         ELSE pc' = "scale" /\ j' = 0 /\ i' = 0

\* "while len(word) > 0", with word and last_c as just assigned.
WhileWord(w, c) ==
    IF Len(w) > 0
    THEN pc' = "link" /\ word' = w /\ last_c' = c /\ UNCHANGED <<i, j>>
    ELSE word' = <<>> /\ last_c' = "" /\ NextPart

ConstructParts ==
    /\ pc = "parts"
    /\ LET nms == NamesOf(wordlist[i])
       IN  /\ chain_cache' = [chain_cache EXCEPT ![call.id] =
                                 incr_chain(@, "parts", Str(Len(nms)))]
           /\ IF Len(nms) > 0
              THEN pc' = "name_len" /\ j' = 0 /\ i' = i
              ELSE IF i < Len(wordlist)
                   THEN pc' = "parts" /\ j' = 0 /\ i' = i + 1
                   ELSE pc' = "scale" /\ j' = 0 /\ i' = 0
    /\ UNCHANGED <<name_set, call, namelist, word, last_c,
                   parts, names, name_len, name, result, builds, returned>>

ConstructNameLen ==
    /\ pc = "name_len"
    /\ chain_cache' = [chain_cache EXCEPT ![call.id] =
                          incr_chain(@, "name_len", Str(Len(NamesOf(wordlist[i])[j + 1])))]
    /\ pc' = "initial"
    /\ UNCHANGED <<name_set, call, namelist, i, j, word, last_c,
                   parts, names, name_len, name, result, builds, returned>>

\* "c = name[0]" raises IndexError for the empty string.
ConstructInitial ==
    /\ pc = "initial"
    /\ LET nm == NamesOf(wordlist[i])[j + 1]
       IN  IF Len(nm) = 0
           THEN /\ Raise("IndexError")
                /\ UNCHANGED chain_cache
           ELSE /\ chain_cache' = [chain_cache EXCEPT ![call.id] =
                                      incr_chain(@, "initial", nm[1])]
                /\ WhileWord(Tail(nm), nm[1])
                /\ UNCHANGED <<call, namelist, parts, names, name_len, name, result>>
    /\ UNCHANGED <<name_set, builds, returned>>

ConstructLink ==
    /\ pc = "link"
    /\ chain_cache' = [chain_cache EXCEPT ![call.id] = incr_chain(@, last_c, word[1])]
    /\ WhileWord(Tail(word), word[1])
    /\ UNCHANGED <<name_set, call, namelist, parts, names, name_len, name,
                   result, builds, returned>>

\* "return scale_chain(chain)": scale_chain changes the dict it is given,
\* which is the cached one.
ConstructScale ==
    /\ pc = "scale"
    /\ chain_cache' = [chain_cache EXCEPT ![call.id] = scale_chain(@)]
    /\ pc' = "store"
    /\ UNCHANGED <<name_set, call, namelist, i, j, word, last_c,
                   parts, names, name_len, name, result, builds, returned>>

\* "if chain: chain_cache[chainName] = chain" and "return chain".
MarkovChainStore ==
    /\ pc = "store"
    /\ LET chain == chain_cache[call.id]
       IN  /\ chain_cache' = IF chain # <<>> THEN Store(chain_cache, call.id, chain)
                             ELSE chain_cache
           /\ MarkovChainReturns(chain)
    /\ UNCHANGED <<name_set, builds>>

----------------------------------------------------------------------------
\* markov_name, one select_link call a step.  Its chain is the dict that
\* markov_chain returned, which is chain_cache[identifier].

chain_of_call == chain_cache[call.id]

\* "names.append(name)", then the next part or "return ' '.join(names)".
RECURSIVE Join(_)
Join(nms) ==
    IF nms = <<>> THEN <<>>
    ELSE IF Len(nms) = 1 THEN nms[1]
    ELSE nms[1] \o <<" ">> \o Join(Tail(nms))

AppendName(nm) ==
    IF Len(names) + 1 < parts
    THEN /\ names' = Append(names, nm)
         /\ pc' = "draw_name_len"
         /\ name' = <<>> /\ name_len' = 0 /\ last_c' = ""
         /\ UNCHANGED <<parts, i, j, word, call, namelist, result>>
    ELSE GenerateNameReturns(Join(Append(names, nm)))

\* "while len(name) < name_len", with name and last_c as just assigned.
WhileName(nm, c) ==
    IF Len(nm) < name_len
    THEN /\ pc' = "draw_link" /\ name' = nm /\ last_c' = c
         /\ UNCHANGED <<parts, names, name_len, i, j, word, call, namelist, result>>
    ELSE AppendName(nm)

\* "parts = int(select_link(chain, 'parts'))"; int('') raises ValueError.
MarkovNameParts ==
    /\ pc = "markov_name"
    /\ IF SelectLinkError(chain_of_call, "parts") # "none"
       THEN Raise(SelectLinkError(chain_of_call, "parts"))
       ELSE \E idx \in SelectLinkDraws(chain_of_call, "parts") :
              LET tok == select_link(chain_of_call, "parts", idx)
              IN  IF tok = "" THEN Raise("ValueError")
                  ELSE IF ToInt(tok) = 0 THEN GenerateNameReturns(<<>>)
                  ELSE /\ parts' = ToInt(tok)
                       /\ pc' = "draw_name_len"
                       /\ UNCHANGED <<names, name_len, name, last_c, i, j, word,
                                      call, namelist, result>>
    /\ UNCHANGED <<name_set, chain_cache, builds, returned>>

MarkovNameLen ==
    /\ pc = "draw_name_len"
    /\ IF SelectLinkError(chain_of_call, "name_len") # "none"
       THEN Raise(SelectLinkError(chain_of_call, "name_len"))
       ELSE \E idx \in SelectLinkDraws(chain_of_call, "name_len") :
              LET tok == select_link(chain_of_call, "name_len", idx)
              IN  IF tok = "" THEN Raise("ValueError")
                  ELSE /\ name_len' = ToInt(tok)
                       /\ pc' = "draw_initial"
                       /\ UNCHANGED <<parts, names, name, last_c, i, j, word,
                                      call, namelist, result>>
    /\ UNCHANGED <<name_set, chain_cache, builds, returned>>

\* "c = select_link(chain, 'initial')", "name = c", "last_c = c".
MarkovNameInitial ==
    /\ pc = "draw_initial"
    /\ IF SelectLinkError(chain_of_call, "initial") # "none"
       THEN Raise(SelectLinkError(chain_of_call, "initial"))
       ELSE \E idx \in SelectLinkDraws(chain_of_call, "initial") :
              LET c == select_link(chain_of_call, "initial", idx)
              IN  WhileName(IF c = "" THEN <<>> ELSE <<c>>, c)
    /\ UNCHANGED <<name_set, chain_cache, builds, returned>>

\* "c = select_link(chain, last_c)", the break on '', "name = name + c".
MarkovNameLink ==
    /\ pc = "draw_link"
    /\ IF SelectLinkError(chain_of_call, last_c) # "none"
       THEN Raise(SelectLinkError(chain_of_call, last_c))
       ELSE \E idx \in SelectLinkDraws(chain_of_call, last_c) :
              LET c == select_link(chain_of_call, last_c, idx)
              IN  IF c = "" THEN AppendName(name)
                  ELSE WhileName(Append(name, c), c)
    /\ UNCHANGED <<name_set, chain_cache, builds, returned>>

----------------------------------------------------------------------------
Next ==
    \/ \E id \in Ids : CallMarkovChain(id)
    \/ \E id \in Ids : CallGenerateName(id)
    \/ \E id \in Ids, n_of \in 0..MaxN : CallNameList(id, n_of)
    \/ MarkovChainHit
    \/ MarkovChainUnregistered
    \/ MarkovChainEmpty
    \/ MarkovChainBuild
    \/ ConstructParts
    \/ ConstructNameLen
    \/ ConstructInitial
    \/ ConstructLink
    \/ ConstructScale
    \/ MarkovChainStore
    \/ MarkovNameParts
    \/ MarkovNameLen
    \/ MarkovNameInitial
    \/ MarkovNameLink

Spec == Init /\ [][Next]_vars

----------------------------------------------------------------------------
\* What the claims speak of.

\* A chain that scale_chain has finished has its table_len.
Complete(chain) == DictHas(chain, "table_len")

StateKeys(chain) == DictKeys(chain) \ {"table_len"}

\* sum(d.values()) of a dict of integers.
RECURSIVE DictSum(_)
DictSum(d) == IF d = <<>> THEN 0 ELSE d[1][2] + DictSum(Tail(d))

\* The keys select_link can be asked for, and the tokens a table can hold.
AllKeys == {"parts", "name_len", "initial"} \cup Chars
AllTokens == Chars \cup {Str(n) : n \in 0..MaxIncr}

\* table_len[key], a missing key counting as 0.
Total(chain, key) ==
    IF DictHas(DictGet(chain, "table_len"), key)
    THEN DictGet(DictGet(chain, "table_len"), key)
    ELSE 0

Registered(id) == id \in DOMAIN name_set

PartsOf(wl) == UNION {{<<e, p>> : p \in 1..Len(NamesOf(wl[e]))} : e \in 1..Len(wl)}
Part(wl, ep) == NamesOf(wl[ep[1]])[ep[2]]

HasEmptyPart(wl) == \E ep \in PartsOf(wl) : Len(Part(wl, ep)) = 0

\* Every entry of wl has k parts and every part has length L.
Uniform(wl, k, L) ==
    /\ Len(wl) > 0
    /\ \A e \in 1..Len(wl) : Len(NamesOf(wl[e])) = k
    /\ \A ep \in PartsOf(wl) : Len(Part(wl, ep)) = L

CharsOf(wl) == UNION {{Part(wl, ep)[q] : q \in 1..Len(Part(wl, ep))} : ep \in PartsOf(wl)}

\* s.split(' ')
RECURSIVE Split(_, _)
Split(s, cur) ==
    IF s = <<>> THEN <<cur>>
    ELSE IF s[1] = " " THEN <<cur>> \o Split(Tail(s), <<>>)
    ELSE Split(Tail(s), Append(cur, s[1]))

\* The number of occurrences of key[token] counted over a word list.
Occurrences(wl, key, token) ==
    IF key = "parts"
    THEN Cardinality({e \in 1..Len(wl) : Str(Len(NamesOf(wl[e]))) = token})
    ELSE IF key = "name_len"
    THEN Cardinality({ep \in PartsOf(wl) : Str(Len(Part(wl, ep))) = token})
    ELSE IF key = "initial"
    THEN Cardinality({ep \in PartsOf(wl) : Part(wl, ep)[1] = token})
    ELSE Cardinality(UNION {{<<ep, q>> : q \in {r \in 1..(Len(Part(wl, ep)) - 1) :
                                 /\ Part(wl, ep)[r] = key
                                 /\ Part(wl, ep)[r + 1] = token}} : ep \in PartsOf(wl)})

\* w = floor(n^1.3)
IsFloorPow13(n, w) ==
    /\ BigLeq(BigPow(w, 10), BigPow(n, 13))
    /\ ~BigLeq(BigPow(w + 1, 10), BigPow(n, 13))

\* The <<key, token>> occurrences of a word list of non-empty parts, in the
\* order the list gives them.
RECURSIVE LinkOcc(_, _)
LinkOcc(prev, w) ==
    IF w = <<>> THEN <<>> ELSE <<<<prev, w[1]>>>> \o LinkOcc(w[1], Tail(w))

RECURSIVE NamesOcc(_)
NamesOcc(nms) ==
    IF nms = <<>> THEN <<>>
    ELSE <<<<"name_len", Str(Len(nms[1]))>>, <<"initial", nms[1][1]>>>>
            \o LinkOcc(nms[1][1], Tail(nms[1])) \o NamesOcc(Tail(nms))

RECURSIVE ListOcc(_)
ListOcc(wl) ==
    IF wl = <<>> THEN <<>>
    ELSE <<<<"parts", Str(Len(NamesOf(wl[1])))>>>> \o NamesOcc(NamesOf(wl[1])) \o ListOcc(Tail(wl))

\* The tokens of key in the order they first occur in occ.
RECURSIVE FirstSeen(_, _, _)
FirstSeen(occ, key, seen) ==
    IF occ = <<>> THEN seen
    ELSE IF occ[1][1] = key /\ ~(\E n \in 1..Len(seen) : seen[n] = occ[1][2])
         THEN FirstSeen(Tail(occ), key, Append(seen, occ[1][2]))
         ELSE FirstSeen(Tail(occ), key, seen)

\* The sum of the weights chain[key] gives the first n tokens of order.
RECURSIVE Cumulative(_, _, _)
Cumulative(table, order, n) ==
    IF n = 0 THEN 0 ELSE DictGet(table, order[n]) + Cumulative(table, order, n - 1)

----------------------------------------------------------------------------
\* C1: whenever markov_name is about to sample the continuation of a
\* character that has none (it is no key of table_len, or its total is 0)
\* while the part is shorter than its target length, the part ends there
\* as it stands and no exception is raised: the next part starts, or the
\* shorter name is returned.
C1_NoContinuationEndsPart ==
    [][(pc = "draw_link" /\ Total(chain_of_call, last_c) = 0) =>
         LET full == Join(Append(names, name))
         IN  /\ result'.raised = "none"
             /\ \/ pc' = "draw_name_len" /\ names' = Append(names, name)
                \/ pc' = "markov_chain" /\ namelist' = Append(namelist, full)
                \/ /\ pc' = "idle"
                   /\ result'.val = IF call.fn = "generate_name" THEN full
                                    ELSE Append(namelist, full)]_vars

\* C2: a generate_name or name_list call for an identifier that is not
\* registered, or whose word list is empty, ends without an exception,
\* returns '' (n_of empty strings for name_list) and leaves no entry for the
\* identifier in chain_cache.
C2_UnknownOrEmptyYieldsEmpty ==
    (/\ pc = "idle"
     /\ result.fn \in {"generate_name", "name_list"}
     /\ (~Registered(result.id) \/ Len(name_set[result.id]) = 0))
    => /\ result.raised = "none"
       /\ result.id \notin DOMAIN chain_cache
       /\ result.fn = "generate_name" => result.val = <<>>
       /\ result.fn = "name_list" =>
             /\ Len(result.val) = result.n_of
             /\ \A n \in 1..Len(result.val) : result.val[n] = <<>>

\* C3: after every step, every entry of chain_cache is a complete chain (it
\* has its table_len), and an entry that was there before the step is still
\* there and unchanged.
C3_CacheHoldsCompleteChainsOnly ==
    [][/\ \A id \in DOMAIN chain_cache' : Complete(chain_cache'[id])
       /\ \A id \in DOMAIN chain_cache :
             id \in DOMAIN chain_cache' /\ chain_cache'[id] = chain_cache[id]]_vars

\* C4: for every complete chain of the cache and every key, select_link
\* raises nothing, returns a token of chain[key] or '', and returns '' if
\* and only if table_len[key] is 0, a missing key counting as 0.
C4_SelectionBounds ==
    \A id \in DOMAIN chain_cache :
        Complete(chain_cache[id]) =>
            \A key \in AllKeys :
                /\ SelectLinkError(chain_cache[id], key) = "none"
                /\ \A idx \in SelectLinkDraws(chain_cache[id], key) :
                      LET tok == select_link(chain_cache[id], key, idx)
                      IN  /\ tok = "" <=> Total(chain_cache[id], key) = 0
                          /\ tok # "" => DictHas(DictGet(chain_cache[id], key), tok)

\* C5: markov_chain on a word list that contains a zero-length word-part
\* raises nothing and returns a complete chain in which the part is counted
\* under name_len["0"].
C5_ZeroLengthPartBuilds ==
    (/\ pc = "idle"
     /\ result.fn = "markov_chain"
     /\ Registered(result.id)
     /\ HasEmptyPart(name_set[result.id]))
    => /\ result.raised = "none"
       /\ Complete(result.val)
       /\ DictHas(DictGet(result.val, "name_len"), "0")

\* C6: the step that completes a chain of the cache (scale_chain) leaves
\* table_len[key] equal to the sum of the weights of chain[key] for every
\* state key, and no later step of any call changes a complete chain.
C6_WeightConservation ==
    [][\A id \in DOMAIN chain_cache' :
          Complete(chain_cache'[id]) =>
             IF id \in DOMAIN chain_cache /\ Complete(chain_cache[id])
             THEN chain_cache'[id] = chain_cache[id]
             ELSE \A key \in StateKeys(chain_cache'[id]) :
                     /\ DictHas(DictGet(chain_cache'[id], "table_len"), key)
                     /\ DictGet(DictGet(chain_cache'[id], "table_len"), key)
                           = DictSum(DictGet(chain_cache'[id], key))]_vars

\* C7: every return of markov_chain(id) gives the chain its previous return
\* for id gave, and construct_chain is called at most once for an
\* identifier.
C7_IdempotentCaching ==
    [][\A id \in Ids :
          /\ (id \in DOMAIN returned /\ id \in DOMAIN returned')
                => returned'[id] = returned[id]
          /\ builds'[id] <= 1]_vars

\* C8: for a word list whose entries all have k parts (k >= 1) of length L
\* (L >= 1), generate_name raises nothing and returns k space-separated
\* parts, each of length at most L and made of characters of the list.
C8_NameShape ==
    (/\ pc = "idle"
     /\ result.fn = "generate_name"
     /\ Registered(result.id))
    => \A k \in 1..MaxIncr, L \in 1..MaxIncr :
          Uniform(name_set[result.id], k, L) =>
             /\ result.raised = "none"
             /\ LET ps == Split(result.val, <<>>)
                IN  /\ Len(ps) = k
                    /\ \A n \in 1..Len(ps) :
                          /\ Len(ps[n]) <= L
                          /\ \A q \in 1..Len(ps[n]) : ps[n][q] \in CharsOf(name_set[result.id])

\* C9: the chain markov_chain returns for a non-empty word list of
\* non-empty parts is complete and holds, for every key and token, the
\* weight floor(n^1.3) of the n > 0 occurrences counted over the list, and
\* nothing else besides table_len.
C9_ChainIsScaledCounts ==
    (/\ pc = "idle"
     /\ result.fn = "markov_chain"
     /\ result.raised = "none"
     /\ Registered(result.id)
     /\ Len(name_set[result.id]) > 0
     /\ ~HasEmptyPart(name_set[result.id]))
    => LET chain == result.val
           wl == name_set[result.id]
       IN  /\ Complete(chain)
           /\ StateKeys(chain) \subseteq AllKeys
           /\ \A key \in StateKeys(chain) : DictKeys(DictGet(chain, key)) \subseteq AllTokens
           /\ \A key \in AllKeys, token \in AllTokens :
                 LET n == Occurrences(wl, key, token)
                     held == DictHas(chain, key) /\ DictHas(DictGet(chain, key), token)
                 IN  IF n = 0 THEN ~held
                     ELSE held /\ IsFloorPow13(n, DictGet(DictGet(chain, key), token))

\* C10: between calls, in every complete chain of the cache (every chain
\* that was built is there, unchanged, when the call that built it has
\* ended), for every key with a total above 0 and every idx below the total,
\* select_link returns the first token, in the order the word list first
\* gives the key's tokens, whose cumulative weight exceeds idx; so it never
\* returns '', and it returns a token for as many values of idx as the
\* token's weight.
C10_WeightedSelection ==
    \A id \in DOMAIN chain_cache :
        (pc = "idle" /\ Complete(chain_cache[id])) =>
            LET chain == chain_cache[id]
                occ == ListOcc(name_set[id])
            IN  \A n \in 1..Len(chain) :
                   LET key == chain[n][1]
                       table == chain[n][2]
                       total == Total(chain, key)
                       order == FirstSeen(occ, key, <<>>)
                       sel == [idx \in 0..(total - 1) |-> select_link(chain, key, idx)]
                   IN  (key # "table_len" /\ total > 0) =>
                       /\ DictKeys(table) = {order[m] : m \in 1..Len(order)}
                       /\ \A idx \in 0..(total - 1) :
                             \E m \in 1..Len(order) :
                                 /\ sel[idx] = order[m]
                                 /\ Cumulative(table, order, m) > idx
                                 /\ Cumulative(table, order, m - 1) <= idx
                       /\ \A m \in 1..Len(order) :
                             Cardinality({idx \in 0..(total - 1) : sel[idx] = order[m]})
                                 = DictGet(table, order[m])

----------------------------------------------------------------------------
\* States in which the claims' cases have happened.

\* A weight of 4 is a count of 3, scaled.
HasScaledWeight(chain) ==
    \E key \in StateKeys(chain) :
        \E n \in 1..Len(DictGet(chain, key)) : DictGet(chain, key)[n][2] = 4

\* name_list has generated its names from a complete chain with a scaled
\* weight, and the chain is in the cache still.
C6_Witness ==
    /\ pc = "idle"
    /\ result.fn = "name_list"
    /\ result.raised = "none"
    /\ result.n_of > 0
    /\ result.id \in DOMAIN chain_cache
    /\ Complete(chain_cache[result.id])
    /\ HasScaledWeight(chain_cache[result.id])

\* markov_chain is called for an identifier whose chain an earlier call
\* built and returned.
C7_Witness ==
    /\ pc = "markov_chain"
    /\ call.fn = "markov_chain"
    /\ builds[call.id] = 1
    /\ call.id \in DOMAIN returned
    /\ Complete(returned[call.id])
    /\ CacheHit(call.id)

\* markov_chain has returned the chain of a list of non-empty parts with a
\* scaled weight in it.
C9_Witness ==
    /\ pc = "idle"
    /\ result.fn = "markov_chain"
    /\ result.raised = "none"
    /\ Registered(result.id)
    /\ Len(name_set[result.id]) > 0
    /\ ~HasEmptyPart(name_set[result.id])
    /\ HasScaledWeight(result.val)

\* generate_name has sampled a name from a complete chain in which some key
\* has two tokens of different weights.
C10_Witness ==
    /\ pc = "idle"
    /\ result.fn = "generate_name"
    /\ result.raised = "none"
    /\ result.id \in DOMAIN chain_cache
    /\ Complete(chain_cache[result.id])
    /\ \E key \in StateKeys(chain_cache[result.id]) :
          LET table == DictGet(chain_cache[result.id], key)
          IN  Len(table) >= 2 /\ table[1][2] # table[2][2]

====
